---- MODULE Spec2Model ----
(***************************************************************************)
(* MaxConverter (src/maxconverter.py): the line parser                     *)
(* parse_line_to_fields, the file reader extract_data, the table formatter *)
(* format_table and the handler MainWindow.on_extract that runs them.      *)
(*                                                                         *)
(* A Python str is a sequence of one-character strings, so that strip,     *)
(* split, the regular expressions and ljust work on characters as the      *)
(* code's do.  A dict is a function from its keys to its values; the empty *)
(* dict is the function with the empty domain.                             *)
(***************************************************************************)
EXTENDS Integers, Sequences, FiniteSets, TLC

(***************************************************************************)
(* Characters                                                              *)
(***************************************************************************)

\* str.strip() and the pattern \s use the same class (Py_UNICODE_ISSPACE);
\* these are its members that the model's inputs use.
WhiteSpace == {" ", "\t", "\n", "\r", "\f"}

\* \d of FLOAT_TOKEN, restricted to the ASCII digits.
Digits == {"0", "1", "2", "3", "4", "5", "6", "7", "8", "9"}

IsSpace(c) == c \in WhiteSpace

IsDigit(c) == c \in Digits

\* [+-] of FLOAT_TOKEN
IsSign(c) == c \in {"+", "-"}

\* [eE] of FLOAT_TOKEN
IsExp(c) == c \in {"e", "E"}

(***************************************************************************)
(* str methods                                                             *)
(***************************************************************************)

\* s[i:j] of Python with 0 <= i <= j <= len(s), in 1-based positions i+1..j
Slice(s, i, j) == [k \in 1..(j - i) |-> s[i + k]]

RECURSIVE lstrip(_)
lstrip(s) ==
    IF s # <<>> /\ IsSpace(Head(s)) THEN lstrip(Tail(s)) ELSE s

RECURSIVE rstrip(_)
rstrip(s) ==
    IF s # <<>> /\ IsSpace(s[Len(s)]) THEN rstrip(SubSeq(s, 1, Len(s) - 1)) ELSE s

\* str.strip(): leading and trailing whitespace removed
strip(s) == rstrip(lstrip(s))

\* str.startswith of a one-character prefix
startswith(s, c) == s # <<>> /\ Head(s) = c

\* The parts of s between occurrences of the character sep, from position i
\* on, cur being the part collected so far: str.split(sep).
RECURSIVE SplitFrom(_, _, _, _)
SplitFrom(s, sep, i, cur) ==
    IF i > Len(s) THEN <<cur>>
    ELSE IF s[i] = sep THEN <<cur>> \o SplitFrom(s, sep, i + 1, <<>>)
    ELSE SplitFrom(s, sep, i + 1, Append(cur, s[i]))

\* s.split(","): n commas give n + 1 parts, empty parts kept
split(s, sep) == SplitFrom(s, sep, 1, <<>>)

\* The end of the run of whitespace that starts at position i
RECURSIVE SpaceRunEnd(_, _)
SpaceRunEnd(s, i) ==
    IF i <= Len(s) /\ IsSpace(s[i]) THEN SpaceRunEnd(s, i + 1) ELSE i

\* re.split(r"\s+", s): the parts between maximal runs of whitespace; a run at
\* either end leaves an empty part there
RECURSIVE ReSplitFrom(_, _, _)
ReSplitFrom(s, i, cur) ==
    IF i > Len(s) THEN <<cur>>
    ELSE IF IsSpace(s[i]) THEN <<cur>> \o ReSplitFrom(s, SpaceRunEnd(s, i), <<>>)
    ELSE ReSplitFrom(s, i + 1, Append(cur, s[i]))

\* Mutant: the pattern \s in place of \s+, every whitespace character a cut
re_split_each_ws(s) ==
    LET RECURSIVE Each(_, _)
        Each(i, cur) ==
            IF i > Len(s) THEN <<cur>>
            ELSE IF IsSpace(s[i]) THEN <<cur>> \o Each(i + 1, <<>>)
            ELSE Each(i + 1, Append(cur, s[i]))
    IN  Each(1, <<>>)

re_split_ws(s) == ReSplitFrom(s, 1, <<>>)

(***************************************************************************)
(* The regular expression FLOAT_TOKEN: an optional sign, a mantissa        *)
(* (digits with an optional fraction, or a fraction with a leading dot)    *)
(* and an optional exponent.  Positions are 1-based; an "end" is the       *)
(* position after the last matched character.  Every quantifier is greedy  *)
(* and the first complete match of the backtracking search is the one re   *)
(* returns.                                                                *)
(***************************************************************************)

\* A greedy run of \d from position i: the position after its last digit
RECURSIVE DigitRunEnd(_, _)
DigitRunEnd(s, i) ==
    IF i <= Len(s) /\ IsDigit(s[i]) THEN DigitRunEnd(s, i + 1) ELSE i

\* The mantissa group from position i: its end, or 0 when it does not match
MantissaEnd(s, i) ==
    IF i <= Len(s) /\ IsDigit(s[i])
    THEN LET d == DigitRunEnd(s, i)
         IN  IF d <= Len(s) /\ s[d] = "." THEN DigitRunEnd(s, d + 1) ELSE d
    ELSE IF i < Len(s) /\ s[i] = "." /\ IsDigit(s[i + 1])
    THEN DigitRunEnd(s, i + 1)
    ELSE 0

\* The optional exponent group from position i: its end, i itself when the
\* group matches nothing
ExponentEnd(s, i) ==
    IF i <= Len(s) /\ IsExp(s[i])
    THEN LET j == IF i + 1 <= Len(s) /\ IsSign(s[i + 1]) THEN i + 2 ELSE i + 1
             d == DigitRunEnd(s, j)
         IN  IF d > j THEN d ELSE i
    ELSE i

\* Mutant: the pattern without its exponent group
float_re_match_no_exponent(s, i) ==
    LET j == IF i <= Len(s) /\ IsSign(s[i]) THEN i + 1 ELSE i
    IN  MantissaEnd(s, j)

\* float_re matched at position i: the end of the match, or 0.  A sign that is
\* not followed by a mantissa fails the match: without the sign the first
\* character is the sign itself, which starts no mantissa.
float_re_match(s, i) ==
    LET j == IF i <= Len(s) /\ IsSign(s[i]) THEN i + 1 ELSE i
        m == MantissaEnd(s, j)
    IN  IF m = 0 THEN 0 ELSE ExponentEnd(s, m)

\* float_re.findall(s) from position i: the matches left to right, the scan
\* resuming at the end of each match (the pattern has no capturing group, so
\* each item is the whole match)
RECURSIVE FindAllFrom(_, _)
FindAllFrom(s, i) ==
    IF i > Len(s) THEN <<>>
    ELSE LET e == float_re_match(s, i)
         IN  IF e = 0 THEN FindAllFrom(s, i + 1)
             ELSE <<Slice(s, i - 1, e - 1)>> \o FindAllFrom(s, e)

findall(s) == FindAllFrom(s, 1)

(***************************************************************************)
(* parse_line_to_fields                                                    *)
(***************************************************************************)

ALL_COLUMNS == <<"NAME", "HJD", "MAG", "MAG_ERR", "FILTER">>

DEFAULT_COLUMNS == <<"HJD", "MAG", "MAG_ERR">>

\* {} of Python
EmptyDict == [k \in {} |-> <<>>]

\* The dict literal of the comma and whitespace branches
PositionalRecord(parts) ==
    [NAME |-> strip(parts[1]), HJD |-> strip(parts[2]), MAG |-> strip(parts[3]),
     MAG_ERR |-> strip(parts[4]), FILTER |-> strip(parts[5])]

\* The dict literal of the numeric fallback
NumericRecord(nums) ==
    [NAME |-> <<>>, HJD |-> nums[1], MAG |-> nums[2], MAG_ERR |-> nums[3],
     FILTER |-> <<>>]

\* Mutant: the whitespace rule tried before the comma rule
parse_line_whitespace_first(line) ==
    LET s == strip(line)
    IN  IF s = <<>> \/ startswith(s, "#") THEN EmptyDict
        ELSE IF Len(re_split_ws(s)) >= 5 THEN PositionalRecord(re_split_ws(s))
        ELSE IF Len(split(s, ",")) >= 5 THEN PositionalRecord(split(s, ","))
        ELSE IF Len(findall(s)) >= 3 THEN NumericRecord(findall(s))
        ELSE EmptyDict

\* Mutant: the comment test made on the line as read, not on the stripped one
parse_line_comment_unstripped(line) ==
    LET s == strip(line)
    IN  IF s = <<>> \/ startswith(line, "#") THEN EmptyDict
        ELSE IF Len(split(s, ",")) >= 5 THEN PositionalRecord(split(s, ","))
        ELSE IF Len(re_split_ws(s)) >= 5 THEN PositionalRecord(re_split_ws(s))
        ELSE IF Len(findall(s)) >= 3 THEN NumericRecord(findall(s))
        ELSE EmptyDict

\* Mutant: the fallback taken from two numbers on, the error left empty
parse_line_optional_error(line) ==
    LET s == strip(line)
        nums == findall(s)
    IN  IF s = <<>> \/ startswith(s, "#") THEN EmptyDict
        ELSE IF Len(split(s, ",")) >= 5 THEN PositionalRecord(split(s, ","))
        ELSE IF Len(re_split_ws(s)) >= 5 THEN PositionalRecord(re_split_ws(s))
        ELSE IF Len(nums) >= 2
        THEN [NAME |-> <<>>, HJD |-> nums[1], MAG |-> nums[2],
              MAG_ERR |-> IF Len(nums) >= 3 THEN nums[3] ELSE <<>>, FILTER |-> <<>>]
        ELSE EmptyDict

parse_line_to_fields(line) ==
    LET s == strip(line)
    IN  IF s = <<>> \/ startswith(s, "#") THEN EmptyDict
        ELSE IF Len(split(s, ",")) >= 5 THEN PositionalRecord(split(s, ","))
        ELSE IF Len(re_split_ws(s)) >= 5 THEN PositionalRecord(re_split_ws(s))
        ELSE IF Len(findall(s)) >= 3 THEN NumericRecord(findall(s))
        ELSE EmptyDict

\* Python truth of a dict: "if row:"
Truthy(d) == DOMAIN d # {}

(***************************************************************************)
(* extract_data                                                            *)
(***************************************************************************)

\* Mutant: every row appended, the empty ones too
extract_row_unfiltered(out, raw) == Append(out, parse_line_to_fields(raw))

\* One turn of the loop over the file's lines: the row is appended when it is
\* not empty
extract_row(out, raw) ==
    LET row == parse_line_to_fields(raw)
    IN  IF Truthy(row) THEN Append(out, row) ELSE out

(***************************************************************************)
(* format_table                                                            *)
(***************************************************************************)

\* The characters of a column name
ColumnChars(col) ==
    CASE col = "NAME"    -> <<"N", "A", "M", "E">>
      [] col = "HJD"     -> <<"H", "J", "D">>
      [] col = "MAG"     -> <<"M", "A", "G">>
      [] col = "MAG_ERR" -> <<"M", "A", "G", "_", "E", "R", "R">>
      [] col = "FILTER"  -> <<"F", "I", "L", "T", "E", "R">>

\* r.get(col, "")
get(r, col) == IF col \in DOMAIN r THEN r[col] ELSE <<>>

\* str.ljust(w): spaces added on the right up to length w, s itself when it
\* is that long already
ljust(s, w) == s \o [k \in 1..(w - Len(s)) |-> " "]

\* max of a non-empty set of integers
max(S) == CHOOSE x \in S : \A y \in S : y <= x

\* Mutant: two characters of padding
column_width_pad2(rows, col) ==
    max({Len(get(rows[i], col)) : i \in 1..Len(rows)} \cup {Len(ColumnChars(col))}) + 2

\* widths[col]: the longest value of the column or its name, plus 3
column_width(rows, col) ==
    max({Len(get(rows[i], col)) : i \in 1..Len(rows)} \cup {Len(ColumnChars(col))}) + 3

\* "".join(parts)
RECURSIVE concat(_)
concat(parts) == IF parts = <<>> THEN <<>> ELSE Head(parts) \o concat(Tail(parts))

\* "\n".join(parts)
RECURSIVE join_lines(_)
join_lines(parts) ==
    IF parts = <<>> THEN <<>>
    ELSE IF Len(parts) = 1 THEN Head(parts)
    ELSE Head(parts) \o <<"\n">> \o join_lines(Tail(parts))

\* The header row
header_line(rows, selected_cols) ==
    concat([k \in 1..Len(selected_cols) |->
               ljust(ColumnChars(selected_cols[k]), column_width(rows, selected_cols[k]))])

\* The data row of record r
data_line(rows, selected_cols, r) ==
    concat([k \in 1..Len(selected_cols) |->
               ljust(get(r, selected_cols[k]), column_width(rows, selected_cols[k]))])

\* Mutant: the columns rendered in the order of ALL_COLUMNS
format_table_fixed_order(rows, selected_cols) ==
    LET cols == SelectSeq(ALL_COLUMNS,
                          LAMBDA c : \E k \in 1..Len(selected_cols) : selected_cols[k] = c)
    IN  join_lines(<<header_line(rows, cols)>>
                   \o [i \in 1..Len(rows) |-> data_line(rows, cols, rows[i])])

format_table(rows, selected_cols) ==
    join_lines(<<header_line(rows, selected_cols)>>
               \o [i \in 1..Len(rows) |-> data_line(rows, selected_cols, rows[i])])

(***************************************************************************)
(* Bounds of the inputs                                                    *)
(***************************************************************************)

\* Pieces the line handed to parse_line_to_fields is built from, at most
MaxPieces == 6

\* Records and columns handed to format_table, at most
MaxRows == 2

MaxCols == 2

\* Lines of the file extract_data reads, at most
MaxLines == 3

\* What a line is built from, by family of input: comma-separated fields,
\* whitespace-separated tokens, and free text over the characters the
\* floating-point grammar tells apart.
Pieces(fam) ==
    CASE fam = "csv" -> {<<"a">>, <<"1", ",">>, <<",", " ">>, <<" ">>, <<"#">>}
      [] fam = "ws"  -> {<<"a", " ">>, <<"1", "\t", " ">>, <<"1">>, <<"\t">>, <<",">>}
      [] fam = "num" -> {<<"1">>, <<".">>, <<"e">>, <<"-">>, <<" ">>, <<"1", " ">>}

Families == {"csv", "ws", "num"}

\* The values of the Records handed to format_table: text without whitespace
\* at either end, as every branch of parse_line_to_fields leaves it
FormatValues ==
    {<<>>, <<"a", " ", "b">>, <<"2", "4", "5", "9", "0", "0", "0", ".", "5">>}

\* The keys those Records may hold, and the columns that may be asked for
FormatKeys == {"HJD", "MAG_ERR"}

FormatColumns == {"NAME", "HJD", "MAG_ERR"}

FormatRecords ==
    UNION {[K -> FormatValues] : K \in SUBSET FormatKeys}

\* The lines of the files extract_data reads, each as the file iterator gives
\* it: with its newline, but for a last line that has none
FileLines ==
    {<<"#", " ", "c", ",", ",", ",", ",", "\n">>,
     <<" ", "\n">>,
     <<"V", "1", ",", "2", ".", "5", ",", "1", "2", ",", ",", "V", "\n">>,
     <<"o", " ", "2", ".", "5", "\t", "1", "2", " ", ".", "1", " ", "R", "\n">>,
     <<"x", " ", "2", ".", "5", " ", "1", "2", " ", ".", "1", "\n">>,
     <<"j", "u", "n", "k", " ", "1", "\n">>,
     <<"1", " ", "2", " ", "3">>}

(***************************************************************************)
(* State                                                                   *)
(***************************************************************************)

VARIABLES
    \* parse_line_to_fields applied to one line
    family,   \* the family the input line is drawn from
    built,    \* the number of pieces the line is built from
    line,     \* the argument of parse_line_to_fields
    parsed,   \* whether parse_line_to_fields has returned
    rec,      \* what it returned
    \* format_table applied to records and columns
    frows,      \* the argument rows
    fcols,      \* the argument selected_cols
    formatted,  \* whether format_table has returned
    ftext,      \* what it returned
    \* MainWindow.on_extract
    pc,        \* where the handler is
    checks,    \* the columns whose checkbox is checked
    handle,    \* the input file object of extract_data: "none", "open", "closed"
    lines,     \* the lines the file iterator has given so far
    out,       \* extract_data's list out
    rows,      \* on_extract's rows, NotSet until extract_data returns
    text_out,  \* on_extract's text_out, NotSet until format_table returns
    written,   \* what was written to the output file, NotSet when nothing
    msg        \* the message box on_extract showed last

parseVars == <<family, built, line, parsed, rec>>

formatVars == <<frows, fcols, formatted, ftext>>

extractVars == <<pc, checks, handle, lines, out, rows, text_out, written, msg>>

vars == <<parseVars, formatVars, extractVars>>

\* A local that has no value yet
NotSet == "not set"

ParseAtRest ==
    /\ family = "csv"
    /\ built = 0
    /\ line = <<>>
    /\ parsed = FALSE
    /\ rec = EmptyDict

FormatAtRest ==
    /\ frows = <<>>
    /\ fcols = <<>>
    /\ formatted = FALSE
    /\ ftext = <<>>

ExtractAtRest ==
    /\ pc = "idle"
    /\ checks = {DEFAULT_COLUMNS[k] : k \in 1..Len(DEFAULT_COLUMNS)}
    /\ handle = "none"
    /\ lines = <<>>
    /\ out = <<>>
    /\ rows = NotSet
    /\ text_out = NotSet
    /\ written = NotSet
    /\ msg = "none"

(***************************************************************************)
(* The line parser applied to one line (SpecParse)                         *)
(***************************************************************************)

InitParse ==
    /\ family \in Families
    /\ built = 0
    /\ line = <<>>
    /\ parsed = FALSE
    /\ rec = EmptyDict
    /\ FormatAtRest
    /\ ExtractAtRest

\* The caller's line grows by one piece
ExtendLine(p) ==
    /\ ~parsed
    /\ built < MaxPieces
    /\ p \in Pieces(family)
    /\ line' = line \o p
    /\ built' = built + 1
    /\ UNCHANGED <<family, parsed, rec, formatVars, extractVars>>

\* row = parse_line_to_fields(raw)
ParseLine ==
    /\ ~parsed
    /\ rec' = parse_line_to_fields(line)
    /\ parsed' = TRUE
    /\ UNCHANGED <<family, built, line, formatVars, extractVars>>

NextParse ==
    \/ \E p \in UNION {Pieces(f) : f \in Families} : ExtendLine(p)
    \/ ParseLine

SpecParse == InitParse /\ [][NextParse]_vars

(***************************************************************************)
(* The table formatter applied to records and columns (SpecFormat)         *)
(***************************************************************************)

InitFormat == ParseAtRest /\ FormatAtRest /\ ExtractAtRest

\* The caller's list of records grows by one
AddRecord(r) ==
    /\ ~formatted
    /\ Len(frows) < MaxRows
    /\ frows' = Append(frows, r)
    /\ UNCHANGED <<fcols, formatted, ftext, parseVars, extractVars>>

\* The caller's list of columns grows by one
AddColumn(c) ==
    /\ ~formatted
    /\ Len(fcols) < MaxCols
    /\ fcols' = Append(fcols, c)
    /\ UNCHANGED <<frows, formatted, ftext, parseVars, extractVars>>

\* text_out = format_table(rows, selected_cols)
FormatTable ==
    /\ ~formatted
    /\ ftext' = format_table(frows, fcols)
    /\ formatted' = TRUE
    /\ UNCHANGED <<frows, fcols, parseVars, extractVars>>

NextFormat ==
    \/ \E r \in FormatRecords : AddRecord(r)
    \/ \E c \in FormatColumns : AddColumn(c)
    \/ FormatTable

SpecFormat == InitFormat /\ [][NextFormat]_vars

(***************************************************************************)
(* MainWindow.on_extract, with extract_data step by step (Spec)            *)
(***************************************************************************)

Init == ParseAtRest /\ FormatAtRest /\ ExtractAtRest

\* The user checks or unchecks the checkbox of a column
ToggleCheck(col) ==
    /\ pc = "idle"
    /\ checks' = IF col \in checks THEN checks \ {col} ELSE checks \cup {col}
    /\ UNCHANGED <<pc, handle, lines, out, rows, text_out, written, msg,
                   parseVars, formatVars>>

\* Extract is clicked and the path is no file: a warning, and the handler ends
ClickNoFile ==
    /\ pc = "idle"
    /\ msg' = "invalid_file"
    /\ pc' = "done"
    /\ UNCHANGED <<checks, handle, lines, out, rows, text_out, written,
                   parseVars, formatVars>>

\* Extract is clicked and the path is a file: extract_data is called
ClickExtract ==
    /\ pc = "idle"
    /\ pc' = "open"
    /\ out' = <<>>
    /\ UNCHANGED <<checks, handle, lines, rows, text_out, written, msg,
                   parseVars, formatVars>>

\* open() returns the file object and the with block is entered
OpenFile ==
    /\ pc = "open"
    /\ handle' = "open"
    /\ pc' = "read"
    /\ UNCHANGED <<checks, lines, out, rows, text_out, written, msg,
                   parseVars, formatVars>>

\* open() raises: there is no file object, and extract_data is left
OpenFails ==
    /\ pc = "open"
    /\ out' = <<>>
    /\ pc' = "except"
    /\ UNCHANGED <<checks, handle, lines, rows, text_out, written, msg,
                   parseVars, formatVars>>

\* The file iterator gives the next line, which only a line that ended in a
\* newline has; the loop body parses it and keeps the row when it is not empty
ReadLine(raw) ==
    /\ pc = "read"
    /\ Len(lines) < MaxLines
    /\ IF lines = <<>> THEN TRUE
       ELSE lines[Len(lines)][Len(lines[Len(lines)])] = "\n"
    /\ lines' = Append(lines, raw)
    /\ out' = extract_row(out, raw)
    /\ UNCHANGED <<pc, checks, handle, rows, text_out, written, msg,
                   parseVars, formatVars>>

\* Mutant: the file closed only after the loop, not by a with block
ReadFailsHandleLeftOpen ==
    /\ pc = "read"
    /\ out' = <<>>
    /\ pc' = "except"
    /\ UNCHANGED <<checks, handle, lines, rows, text_out, written, msg,
                   parseVars, formatVars>>

\* Reading raises: the with block closes the file on the way out of
\* extract_data, whose list out is lost with it
ReadFails ==
    /\ pc = "read"
    /\ handle' = "closed"
    /\ out' = <<>>
    /\ pc' = "except"
    /\ UNCHANGED <<checks, lines, rows, text_out, written, msg,
                   parseVars, formatVars>>

\* The iterator is exhausted: the with block closes the file and extract_data
\* returns out, which on_extract binds to rows
EndOfFile ==
    /\ pc = "read"
    /\ handle' = "closed"
    /\ rows' = out
    /\ out' = <<>>
    /\ pc' = "extracted"
    /\ UNCHANGED <<checks, lines, text_out, written, msg, parseVars, formatVars>>

\* except Exception: the error is shown and the handler ends
ReadError ==
    /\ pc = "except"
    /\ msg' = "read_error"
    /\ pc' = "done"
    /\ UNCHANGED <<checks, handle, lines, out, rows, text_out, written,
                   parseVars, formatVars>>

\* if not rows: a warning, and the handler ends
NoData ==
    /\ pc = "extracted"
    /\ rows = <<>>
    /\ msg' = "no_data"
    /\ pc' = "done"
    /\ UNCHANGED <<checks, handle, lines, out, rows, text_out, written,
                   parseVars, formatVars>>

\* selected_cols: the checked columns in the order of the checkboxes
selected_cols == SelectSeq(ALL_COLUMNS, LAMBDA c : c \in checks)

\* if not selected_cols: a warning, and the handler ends
NoColumns ==
    /\ pc = "extracted"
    /\ rows # <<>>
    /\ selected_cols = <<>>
    /\ msg' = "no_columns"
    /\ pc' = "done"
    /\ UNCHANGED <<checks, handle, lines, out, rows, text_out, written,
                   parseVars, formatVars>>

\* text_out = format_table(rows, selected_cols)
FormatOutput ==
    /\ pc = "extracted"
    /\ rows # <<>>
    /\ selected_cols # <<>>
    /\ text_out' = format_table(rows, selected_cols)
    /\ pc' = "save"
    /\ UNCHANGED <<checks, handle, lines, out, rows, written, msg,
                   parseVars, formatVars>>

\* The save dialog is cancelled: the handler ends
SaveCancelled ==
    /\ pc = "save"
    /\ pc' = "done"
    /\ UNCHANGED <<checks, handle, lines, out, rows, text_out, written, msg,
                   parseVars, formatVars>>

\* The save dialog gives a path and the table is written to it
WriteFile ==
    /\ pc = "save"
    /\ written' = text_out
    /\ msg' = "saved"
    /\ pc' = "done"
    /\ UNCHANGED <<checks, handle, lines, out, rows, text_out, parseVars, formatVars>>

\* Writing raises, before the output file exists or after open() has emptied it
WriteFails ==
    /\ pc = "save"
    /\ written' \in {NotSet, <<>>}
    /\ msg' = "write_error"
    /\ pc' = "done"
    /\ UNCHANGED <<checks, handle, lines, out, rows, text_out, parseVars, formatVars>>

\* on_extract returns to the event loop: its locals and its message box are gone
Return ==
    /\ pc = "done"
    /\ pc' = "idle"
    /\ handle' = "none"
    /\ lines' = <<>>
    /\ out' = <<>>
    /\ rows' = NotSet
    /\ text_out' = NotSet
    /\ written' = NotSet
    /\ msg' = "none"
    /\ UNCHANGED <<checks, parseVars, formatVars>>

Next ==
    \/ \E col \in {ALL_COLUMNS[k] : k \in 1..Len(ALL_COLUMNS)} : ToggleCheck(col)
    \/ ClickNoFile
    \/ ClickExtract
    \/ OpenFile
    \/ OpenFails
    \/ \E raw \in FileLines : ReadLine(raw)
    \/ ReadFails
    \/ EndOfFile
    \/ ReadError
    \/ NoData
    \/ NoColumns
    \/ FormatOutput
    \/ SaveCancelled
    \/ WriteFile
    \/ WriteFails
    \/ Return

Spec == Init /\ [][Next]_vars

(***************************************************************************)
(* What the claims speak of, stated on positions of the line without the   *)
(* parser's own splitting and scanning                                     *)
(***************************************************************************)

\* The k-th smallest member of a set of integers
Kth(S, k) == CHOOSE x \in S : Cardinality({y \in S : y < x}) = k - 1

\* s without its leading and trailing whitespace
Trimmed(s) ==
    LET I == {i \in 1..Len(s) : ~IsSpace(s[i])}
    IN  IF I = {} THEN <<>>
        ELSE SubSeq(s, CHOOSE i \in I : \A j \in I : i <= j,
                       CHOOSE i \in I : \A j \in I : j <= i)

\* A comment or blank line: nothing, or a '#' first, once trimmed
IsCommentOrBlank(s) == Trimmed(s) = <<>> \/ Head(Trimmed(s)) = "#"

\* Where the character c stands in s
CharAt(s, c) == {i \in 1..Len(s) : s[i] = c}

\* The k-th of the parts the occurrences of c cut s into: what lies between
\* the (k-1)-th and the k-th occurrence
PartOf(s, c, k) ==
    LET cuts == CharAt(s, c) \cup {0, Len(s) + 1}
    IN  SubSeq(s, Kth(cuts, k) + 1, Kth(cuts, k + 1) - 1)

CommaAt(s) == CharAt(s, ",")

\* The number of parts the commas of s cut it into
NumCommaParts(s) == Cardinality(CommaAt(s)) + 1

CommaPart(s, k) == PartOf(s, ",", k)

\* Where a whitespace-delimited token starts, and where one ends
TokenStarts(s) ==
    {i \in 1..Len(s) : ~IsSpace(s[i]) /\ (i = 1 \/ IsSpace(s[i - 1]))}

TokenEnds(s) ==
    {i \in 1..Len(s) : ~IsSpace(s[i]) /\ (i = Len(s) \/ IsSpace(s[i + 1]))}

NumTokens(s) == Cardinality(TokenStarts(s))

Token(s, k) == SubSeq(s, Kth(TokenStarts(s), k), Kth(TokenEnds(s), k))

\* Positions a..b of s hold digits only (none, when b < a)
DigitsIn(s, a, b) == \A k \in a..b : IsDigit(s[k])

\* Positions a..m of s are a mantissa: digits with an optional fractional
\* part, or a leading-dot fraction
IsMantissa(s, a, m) ==
    \/ \E k \in a..m :
          /\ DigitsIn(s, a, k)
          /\ \/ k = m
             \/ s[k + 1] = "." /\ DigitsIn(s, k + 2, m)
    \/ a < m /\ s[a] = "." /\ DigitsIn(s, a + 1, m)

\* Positions a..b of s are an exponent: e or E, an optional sign, digits
IsExponent(s, a, b) ==
    /\ a < b
    /\ IsExp(s[a])
    /\ \E c \in {a + 1, a + 2} :
          /\ c = a + 2 => IsSign(s[a + 1])
          /\ c <= b
          /\ DigitsIn(s, c, b)

\* Positions i..j of s are a literal of the floating-point grammar: optional
\* sign, mantissa, optional exponent
IsLiteralAt(s, i, j) ==
    \E a \in {i, i + 1} :
        /\ a = i + 1 => IsSign(s[i])
        /\ \E m \in a..j :
              /\ IsMantissa(s, a, m)
              /\ m = j \/ IsExponent(s, m + 1, j)

IsFloatLiteral(w) == w # <<>> /\ IsLiteralAt(w, 1, Len(w))

\* The grammar's matches in s from position i on, left to right and not
\* overlapping: at the first position where a literal starts the longest
\* literal there, then on from its end
RECURSIVE GrammarMatchesFrom(_, _)
GrammarMatchesFrom(s, i) ==
    IF i > Len(s) THEN <<>>
    ELSE LET ends == {j \in i..Len(s) : IsLiteralAt(s, i, j)}
         IN  IF ends = {} THEN GrammarMatchesFrom(s, i + 1)
             ELSE LET j == CHOOSE a \in ends : \A b \in ends : b <= a
                  IN  <<SubSeq(s, i, j)>> \o GrammarMatchesFrom(s, j + 1)

GrammarMatches(s) == GrammarMatchesFrom(s, 1)

\* The tokens of s that are, as a whole, floating-point literals, in order
NumericTokens(s) ==
    LET RECURSIVE From(_)
        From(k) == IF k > NumTokens(s) THEN <<>>
                   ELSE IF IsFloatLiteral(Token(s, k)) THEN <<Token(s, k)>> \o From(k + 1)
                   ELSE From(k + 1)
    IN  From(1)

\* The three rules that return a Record, as the claims word them
ByCommaRule(s) == ~IsCommentOrBlank(s) /\ NumCommaParts(Trimmed(s)) >= 5

ByWhitespaceRule(s) ==
    /\ ~IsCommentOrBlank(s)
    /\ NumCommaParts(Trimmed(s)) < 5
    /\ NumTokens(s) >= 5

ByFallback(s) ==
    /\ ~IsCommentOrBlank(s)
    /\ NumCommaParts(Trimmed(s)) < 5
    /\ NumTokens(s) < 5

(***************************************************************************)
(* Claims about parse_line_to_fields, under SpecParse                      *)
(***************************************************************************)

\* C1: a line that is no comment and whose trimmed text has 5 or more comma
\* parts parses to the Record of parts 0..4, each trimmed, whatever follows
\* part 4, whether or not a field is empty and whatever its whitespace tokens
\* or numbers would give.
C1_CommaRecord ==
    (parsed /\ ByCommaRule(line)) =>
        rec = [NAME    |-> Trimmed(CommaPart(Trimmed(line), 1)),
               HJD     |-> Trimmed(CommaPart(Trimmed(line), 2)),
               MAG     |-> Trimmed(CommaPart(Trimmed(line), 3)),
               MAG_ERR |-> Trimmed(CommaPart(Trimmed(line), 4)),
               FILTER  |-> Trimmed(CommaPart(Trimmed(line), 5))]

\* A parsed line of 6 or more comma parts and 5 or more whitespace tokens,
\* with an empty field, a field that had to be trimmed and a non-empty part
\* beyond the fifth
C1_Witness ==
    /\ parsed
    /\ ByCommaRule(line)
    /\ NumCommaParts(Trimmed(line)) >= 6
    /\ NumTokens(line) >= 5
    /\ CommaPart(Trimmed(line), 6) # <<>>
    /\ rec.NAME # <<>>
    /\ rec.HJD = <<>>
    /\ rec.MAG # CommaPart(Trimmed(line), 3)

\* C2: a line that is no comment, has no comma and has 5 or more whitespace
\* tokens parses to the Record of tokens 0..4 in order; tokens beyond the
\* fifth are ignored.
C2_WhitespaceRecord ==
    (parsed /\ ~IsCommentOrBlank(line) /\ CommaAt(line) = {} /\ NumTokens(line) >= 5) =>
        rec = [NAME    |-> Token(line, 1),
               HJD     |-> Token(line, 2),
               MAG     |-> Token(line, 3),
               MAG_ERR |-> Token(line, 4),
               FILTER  |-> Token(line, 5)]

\* A parsed comma-free line of 6 tokens, two of them a run of whitespace apart
C2_Witness ==
    /\ parsed
    /\ ~IsCommentOrBlank(line)
    /\ CommaAt(line) = {}
    /\ NumTokens(line) >= 6
    /\ \E i \in 1..(Len(line) - 1) : IsSpace(line[i]) /\ IsSpace(line[i + 1])
    /\ rec.NAME # rec.HJD

\* C3: a line that is no comment and has fewer than 5 comma parts and fewer
\* than 5 whitespace tokens parses, when the grammar matches 3 or more times,
\* to HJD, MAG, MAG_ERR = the first three matches verbatim with NAME and
\* FILTER empty, and to the empty Record when it matches fewer than 3 times.
C3_NumericFallback ==
    (parsed /\ ByFallback(line)) =>
        LET nums == GrammarMatches(line)
        IN  IF Len(nums) >= 3
            THEN rec = [NAME |-> <<>>, HJD |-> nums[1], MAG |-> nums[2],
                        MAG_ERR |-> nums[3], FILTER |-> <<>>]
            ELSE rec = EmptyDict

\* A parsed fallback line with a signed match, a fractional match and four
\* matches or more
C3_Witness ==
    /\ parsed
    /\ ByFallback(line)
    /\ Len(GrammarMatches(line)) >= 4
    /\ IsSign(Head(rec.MAG))
    /\ Len(rec.MAG_ERR) >= 2

\* C4: a line that is empty, all whitespace, or starts with '#' once trimmed
\* parses to the empty Record, whatever follows the '#'.
C4_CommentOrBlank ==
    (parsed /\ IsCommentOrBlank(line)) => rec = EmptyDict

\* A parsed line of whitespace, a '#', and then 5 comma parts holding 3 numbers
C4_Witness ==
    /\ parsed
    /\ line # <<>>
    /\ IsSpace(Head(line))
    /\ IsCommentOrBlank(line)
    /\ Trimmed(line) # <<>>
    /\ NumCommaParts(Trimmed(line)) >= 5
    /\ Len(GrammarMatches(line)) >= 3
    /\ rec = EmptyDict

\* C8: in the numeric fallback the values come from the wholly numeric tokens
\* only: HJD, MAG and MAG_ERR are the first three whitespace-delimited tokens
\* that are floating-point literals, and no part of any other token is
\* returned.
C8_OnlyNumericTokens ==
    (parsed /\ ByFallback(line) /\ rec # EmptyDict) =>
        LET toks == NumericTokens(line)
        IN  /\ Len(toks) >= 3
            /\ rec.HJD = toks[1]
            /\ rec.MAG = toks[2]
            /\ rec.MAG_ERR = toks[3]

\* C10: a non-empty Record has the keys HJD, MAG and MAG_ERR; one of them is
\* the empty string only in a Record of the comma or whitespace rule, never in
\* one of the numeric fallback.
C10_KeysPopulated ==
    (parsed /\ rec # EmptyDict) =>
        /\ {"HJD", "MAG", "MAG_ERR"} \subseteq DOMAIN rec
        /\ (\E k \in {"HJD", "MAG", "MAG_ERR"} : rec[k] = <<>>) =>
               (ByCommaRule(line) \/ ByWhitespaceRule(line))
        /\ ByFallback(line) =>
               \A k \in {"HJD", "MAG", "MAG_ERR"} : rec[k] # <<>>

\* A Record of the numeric fallback, from a line of exactly three matches
C10_Witness ==
    /\ parsed
    /\ rec # EmptyDict
    /\ ByFallback(line)
    /\ Len(GrammarMatches(line)) = 3
    /\ rec.MAG_ERR # <<>>

(***************************************************************************)
(* Claims about format_table, under SpecFormat                             *)
(***************************************************************************)

\* The lines of a text: what its newlines cut it into
NumTextLines(text) == Cardinality(CharAt(text, "\n")) + 1

TextLine(text, i) == PartOf(text, "\n", i)

\* What a record shows in a column: its value, nothing when it has none
Rendered(r, col) == IF col \in DOMAIN r THEN r[col] ELSE <<>>

\* The width the claims give a column: 3 more than the longest of its name
\* and its values
ClaimedWidth(rs, col) ==
    3 + (CHOOSE n \in 0..100 :
            /\ n >= Len(ColumnChars(col))
            /\ \A i \in 1..Len(rs) : n >= Len(Rendered(rs[i], col))
            /\ \/ n = Len(ColumnChars(col))
               \/ \E i \in 1..Len(rs) : n = Len(Rendered(rs[i], col)))

\* Where column k starts in a line, less one: the widths before it, summed
RECURSIVE ColumnOffset(_, _, _)
ColumnOffset(rs, cs, k) ==
    IF k = 1 THEN 0
    ELSE ColumnOffset(rs, cs, k - 1) + ClaimedWidth(rs, cs[k - 1])

\* A line cut at the column boundaries: its k-th slice
LineSlice(L, rs, cs, k) ==
    SubSeq(L, ColumnOffset(rs, cs, k) + 1, ColumnOffset(rs, cs, k + 1))

\* x without its trailing spaces
TrimTrailingSpaces(x) ==
    LET I == {i \in 1..Len(x) : x[i] # " "}
    IN  IF I = {} THEN <<>> ELSE SubSeq(x, 1, CHOOSE i \in I : \A j \in I : j <= i)

\* What line i of the table shows in column k: the column's name in the
\* header, record i - 1's value below it
Shown(rs, cs, i, k) ==
    IF i = 1 THEN ColumnChars(cs[k]) ELSE Rendered(rs[i - 1], cs[k])

\* C5: with at least one column, every line of the table is as long as the
\* widths summed, a column's width being 3 more than the longest of its name
\* and its values, and every line cut at the cumulative widths gives, trailing
\* spaces trimmed, the column names (header) or the record's values (data).
C5_ColumnBoundaries ==
    (formatted /\ fcols # <<>>) =>
        \A i \in 1..NumTextLines(ftext) :
            /\ i <= Len(frows) + 1
            /\ Len(TextLine(ftext, i)) = ColumnOffset(frows, fcols, Len(fcols) + 1)
            /\ \A k \in 1..Len(fcols) :
                   TrimTrailingSpaces(LineSlice(TextLine(ftext, i), frows, fcols, k))
                       = Shown(frows, fcols, i, k)

\* A table of two records and two columns, one column as wide as its name
\* asks, the other as wide as a value longer than its name asks
C5_Witness ==
    /\ formatted
    /\ Len(frows) = 2
    /\ Len(fcols) = 2
    /\ fcols[1] # fcols[2]
    /\ ClaimedWidth(frows, fcols[1]) = Len(ColumnChars(fcols[1])) + 3
    /\ ClaimedWidth(frows, fcols[2]) > Len(ColumnChars(fcols[2])) + 3
    /\ Len(Rendered(frows[1], fcols[2])) < Len(Rendered(frows[2], fcols[2]))
    /\ NumTextLines(ftext) = 3

\* Line L is the values vals[k..] in order from position pos on, each
\* followed by one space or more, and nothing else
RECURSIVE ListsInOrder(_, _, _, _)
ListsInOrder(L, pos, vals, k) ==
    IF k > Len(vals) THEN pos = Len(L) + 1
    ELSE LET after == pos + Len(vals[k])
         IN  /\ after - 1 <= Len(L)
             /\ SubSeq(L, pos, after - 1) = vals[k]
             /\ \E n \in 1..(Len(L) - after + 1) :
                    /\ \A m \in after..(after + n - 1) : L[m] = " "
                    /\ ListsInOrder(L, after + n, vals, k + 1)

\* C6: the table has exactly 1 + len(records) lines, a single newline between
\* two of them and none after the last; the first lists the column names and
\* line i + 1 the values of record i, in the order the caller gave the columns,
\* the empty string standing for a column the record does not have.
C6_LinesInOrder ==
    formatted =>
        /\ NumTextLines(ftext) = 1 + Len(frows)
        /\ fcols # <<>> =>
               /\ \A i \in 1..NumTextLines(ftext) : TextLine(ftext, i) # <<>>
               /\ ListsInOrder(TextLine(ftext, 1), 1,
                               [k \in 1..Len(fcols) |-> ColumnChars(fcols[k])], 1)
               /\ \A i \in 1..Len(frows) :
                      ListsInOrder(TextLine(ftext, i + 1), 1,
                                   [k \in 1..Len(fcols) |-> Rendered(frows[i], fcols[k])], 1)

\* A table of two different records under columns given against the order of
\* ALL_COLUMNS, the first record lacking a column the second has
C6_Witness ==
    /\ formatted
    /\ Len(frows) = 2
    /\ fcols = <<"MAG_ERR", "HJD">>
    /\ "HJD" \notin DOMAIN frows[1]
    /\ "HJD" \in DOMAIN frows[2]
    /\ frows[2]["HJD"] # <<>>
    /\ "MAG_ERR" \in DOMAIN frows[1]
    /\ frows[1]["MAG_ERR"] # <<>>

(***************************************************************************)
(* Claims about extract_data and on_extract, under Spec                    *)
(***************************************************************************)

\* The non-empty results of parse_line_to_fields on the lines ls, in order
NonEmptyRows(ls) ==
    SelectSeq([i \in 1..Len(ls) |-> parse_line_to_fields(ls[i])],
              LAMBDA r : r # EmptyDict)

\* C7: extract_data gathers, and returns, exactly the non-empty results of
\* parse_line_to_fields on the lines read, in file order; a line that gives no
\* Record changes nothing, and a file of comment and blank lines alone gives
\* the empty list.
C7_RowsAreParsedLines ==
    /\ pc = "read" => out = NonEmptyRows(lines)
    /\ rows # NotSet =>
           /\ rows = NonEmptyRows(lines)
           /\ (\A i \in 1..Len(lines) : IsCommentOrBlank(lines[i])) => rows = <<>>

\* extract_data has returned two Records from three lines, the second of which
\* is neither blank nor a comment and gives no Record
C7_Witness ==
    /\ rows # NotSet
    /\ Len(lines) = 3
    /\ ~IsCommentOrBlank(lines[2])
    /\ parse_line_to_fields(lines[2]) = EmptyDict
    /\ Len(rows) = 2
    /\ rows[1] # rows[2]

\* C9: the input file is open only while extract_data is reading it, so every
\* run ends with it released, whether by the end of the file or by a failure
\* of open or of a read; after a failure on_extract holds no Records, formats
\* nothing and writes nothing.
C9_ReleasedAndNothingPartial ==
    /\ handle = "open" => pc = "read"
    /\ rows # NotSet => handle = "closed"
    /\ (pc = "except" \/ msg = "read_error") =>
           /\ rows = NotSet
           /\ text_out = NotSet
           /\ written = NotSet

\* on_extract has ended on a read that failed after two lines had given Records
C9_Witness ==
    /\ pc = "done"
    /\ msg = "read_error"
    /\ handle = "closed"
    /\ Len(NonEmptyRows(lines)) = 2

====
